---- MODULE Spec2Model ----
(***************************************************************************)
(* Model of ShaderGen (src/core/shadergen.cpp): the capability resolver    *)
(* run by the constructor, the header emitter, the declaration emitters,   *)
(* the entry-point emitters and the three shader assemblers.               *)
(*                                                                         *)
(* Text is a sequence of lines; a line is a sequence of string tokens      *)
(* whose concatenation is the characters written before the line's "\n".  *)
(* Numbers are written digit by digit, as operator<< and printf do.  The    *)
(* u32 counters and indices stay far below 2^32 here, so none wraps.       *)
(***************************************************************************)
EXTENDS Integers, Sequences, FiniteSets, TLC

VARIABLES
  pc,                           \* "new", "ready" or "aborted" (failed Assert)
  host,                         \* host display: render API and dual-source support
  glad,                         \* GLAD_GL_* globals of the current context
  glsl_version,                 \* glGetString(GL_SHADING_LANGUAGE_VERSION)
  m_render_api,
  m_glsl,
  m_supports_dual_source_blend,
  m_use_glsl_interface_blocks,
  m_use_glsl_binding_layout,
  m_glsl_version_string,
  ss,                           \* text appended to the sink by the last call
  call                          \* the last call and its arguments

vars == <<pc, host, glad, glsl_version, m_render_api, m_glsl,
          m_supports_dual_source_blend, m_use_glsl_interface_blocks,
          m_use_glsl_binding_layout, m_glsl_version_string, ss, call>>

caps == <<m_render_api, m_glsl, m_supports_dual_source_blend,
          m_use_glsl_interface_blocks, m_use_glsl_binding_layout,
          m_glsl_version_string>>

env == <<host, glad, glsl_version>>

\* ------------------------------------------------------------------ bounds
MaxVerLen == 5
MaxColors == 2
MaxTexcoords == 2
MaxIndex == 2

\* ------------------------------------------------------------- input sets
RenderAPIs == {"OpenGL", "OpenGLES", "Vulkan", "D3D11"}

GLAPIs == {"OpenGL", "OpenGLES"}

VersionChars == {"0", "2", "3", "4", "5", "."}

RECURSIVE StringsUpTo(_)
StringsUpTo(n) ==
  IF n = 0 THEN {<< >>}
  ELSE LET shorter == StringsUpTo(n - 1)
       IN  shorter \cup {Append(s, c) : s \in {t \in shorter : Len(t) = n - 1},
                                        c \in VersionChars}

Str(chars) == [isnull |-> FALSE, str |-> chars]

NullStr == [isnull |-> TRUE, str |-> << >>]

Desktop460 == <<"4", ".", "6", "0">>

Embedded320 == <<"O", "p", "e", "n", "G", "L", " ", "E", "S", " ", "G", "L",
                 "S", "L", " ", "E", "S", " ", "3", ".", "2", "0">>

GladFlags == {"GL_VERSION_3_2", "GL_VERSION_4_2", "GL_VERSION_4_3",
              "GL_ES_VERSION_3_1", "GL_ES_VERSION_3_2",
              "GL_ARB_explicit_attrib_location",
              "GL_ARB_explicit_uniform_location",
              "GL_ARB_shading_language_420pack",
              "GL_EXT_blend_func_extended",
              "GL_ARB_shader_storage_buffer_object"}

DesktopFlags == {"GL_VERSION_3_2", "GL_VERSION_4_2", "GL_VERSION_4_3",
                 "GL_ARB_explicit_attrib_location",
                 "GL_ARB_explicit_uniform_location",
                 "GL_ARB_shading_language_420pack",
                 "GL_ARB_shader_storage_buffer_object"}

EmbeddedFlags == {"GL_ES_VERSION_3_1", "GL_ES_VERSION_3_2",
                  "GL_EXT_blend_func_extended"}

\* The version flags of one context are cumulative.
Cumulative(g) ==
  /\ g["GL_VERSION_4_3"] => g["GL_VERSION_4_2"]
  /\ g["GL_VERSION_4_2"] => g["GL_VERSION_3_2"]
  /\ g["GL_ES_VERSION_3_2"] => g["GL_ES_VERSION_3_1"]

\* Flags loaded for a context of the given API; no GL context, all zero.
GladFor(api) ==
  LET allowed == IF api = "OpenGL" THEN DesktopFlags
                 ELSE IF api = "OpenGLES" THEN EmbeddedFlags
                 ELSE {}
  IN  {g \in [GladFlags -> BOOLEAN] :
         /\ Cumulative(g)
         /\ \A f \in GladFlags \ allowed : ~g[f]}

\* ------------------------------------------------------------ number text
DigitChars == <<"0", "1", "2", "3", "4", "5", "6", "7", "8", "9">>

IsDigit(c) == \E i \in 1..10 : DigitChars[i] = c

DigitVal(c) == (CHOOSE i \in 1..10 : DigitChars[i] = c) - 1

RECURSIVE Dec(_)
Dec(n) ==
  IF n < 0 THEN <<"-">> \o Dec(0 - n)
  ELSE IF n < 10 THEN <<DigitChars[n + 1]>>
  ELSE Dec(n \div 10) \o <<DigitChars[(n % 10) + 1]>>

\* printf("%02d")
Dec02(n) == IF n >= 0 /\ n < 10 THEN <<"0">> \o Dec(n) ELSE Dec(n)

BoolToUInt32(b) == IF b THEN 1 ELSE 0

\* ----------------------------------------------------------------- sscanf
IsSpace(c) == c \in {" ", "\t", "\n"}

RECURSIVE SkipNonDigits(_, _)
SkipNonDigits(s, i) ==
  IF i <= Len(s) /\ ~IsDigit(s[i]) THEN SkipNonDigits(s, i + 1) ELSE i

RECURSIVE SkipSpaces(_, _)
SkipSpaces(s, i) ==
  IF i <= Len(s) /\ IsSpace(s[i]) THEN SkipSpaces(s, i + 1) ELSE i

RECURSIVE ScanDigits(_, _, _)
ScanDigits(s, i, acc) ==
  IF i <= Len(s) /\ IsDigit(s[i])
  THEN ScanDigits(s, i + 1, acc * 10 + DigitVal(s[i]))
  ELSE [val |-> acc, next |-> i]

\* One %d conversion at position i: leading white space, an optional sign,
\* then at least one digit.
ScanInt(s, i) ==
  LET j == SkipSpaces(s, i)
      signed == j <= Len(s) /\ s[j] \in {"-", "+"}
      k == IF signed THEN j + 1 ELSE j
      d == ScanDigits(s, k, 0)
  IN  IF k <= Len(s) /\ IsDigit(s[k])
      THEN [ok |-> TRUE, eof |-> FALSE,
            val |-> IF signed /\ s[j] = "-" THEN 0 - d.val ELSE d.val,
            next |-> d.next]
      ELSE [ok |-> FALSE, eof |-> j > Len(s), val |-> 0, next |-> i]

\* sscanf(s + start - 1, "%d.%d", &major, &minor); major and minor keep
\* their previous value 0 when not assigned.
sscanf(s, start) ==
  LET a == ScanInt(s, start)
  IN  IF ~a.ok
      THEN [count |-> IF a.eof THEN -1 ELSE 0, major |-> 0, minor |-> 0]
      ELSE IF ~(a.next <= Len(s) /\ s[a.next] = ".")
      THEN [count |-> 1, major |-> a.val, minor |-> 0]
      ELSE LET b == ScanInt(s, a.next + 1)
           IN  IF b.ok
               THEN [count |-> 2, major |-> a.val, minor |-> b.val]
               ELSE [count |-> 1, major |-> a.val, minor |-> 0]

\* ------------------------------------------------ ShaderGen: construction
\* VersionNumbers with the embedded ceiling left out.
VersionNumbers_DesktopCeilingOnly(glsl_es, str) ==
  LET r == sscanf(str, SkipNonDigits(str, 1))
  IN  IF r.count = 2
      THEN IF ~glsl_es /\ (r.major > 4 \/ (r.major = 4 /\ r.minor > 30))
           THEN [major |-> 4, minor |-> 30]
           ELSE [major |-> r.major, minor |-> r.minor]
      ELSE IF glsl_es
           THEN [major |-> 3, minor |-> 0]
           ELSE [major |-> r.major, minor |-> r.minor]

\* The values of major_version and minor_version at the snprintf.
VersionNumbers(glsl_es, str) ==
  LET glsl_version_start == SkipNonDigits(str, 1)
      r == sscanf(str, glsl_version_start)
  IN  IF r.count = 2
      THEN IF ~glsl_es /\ (r.major > 4 \/ (r.major = 4 /\ r.minor > 30))
           THEN [major |-> 4, minor |-> 30]
           ELSE IF glsl_es /\ (r.major > 3 \/ (r.major = 3 /\ r.minor > 20))
           THEN [major |-> 3, minor |-> 20]
           ELSE [major |-> r.major, minor |-> r.minor]
      ELSE IF glsl_es
           THEN [major |-> 3, minor |-> 0]
           ELSE [major |-> r.major, minor |-> r.minor]

\* The value of m_glsl_version_string on return: the fallback assigned in
\* the else branch is overwritten by the formatted buffer.
SetGLSLVersionString(api, str) ==
  LET glsl_es == (api = "OpenGLES")
      r == sscanf(str, SkipNonDigits(str, 1))
      v == VersionNumbers(glsl_es, str)
      fallback == IF r.count = 2 THEN << >>
                  ELSE IF glsl_es THEN <<"3", "0", "0">> ELSE <<"1", "3", "0">>
      buf == <<"#version ">> \o Dec(v.major) \o Dec02(v.minor)
               \o (IF glsl_es /\ v.major >= 3 THEN <<" es">> ELSE << >>)
      assigned == <<fallback, buf>>
  IN  assigned[Len(assigned)]

IsVulkanAPI(api) == api = "Vulkan"

IsVulkan == IsVulkanAPI(m_render_api)

UseGLSLBindingLayout(g) ==
  \/ g["GL_ES_VERSION_3_1"]
  \/ g["GL_VERSION_4_2"]
  \/ /\ g["GL_ARB_explicit_attrib_location"]
     /\ g["GL_ARB_explicit_uniform_location"]
     /\ g["GL_ARB_shading_language_420pack"]

NoCall == [op |-> "none"]

\* ShaderGen::ShaderGen(render_api, supports_dual_source_blend)
Construct ==
  /\ pc = "new"
  /\ LET api == host.render_api
         glsl == (api # "D3D11")
     IN  /\ m_render_api' = api
         /\ m_glsl' = glsl
         /\ m_supports_dual_source_blend' = host.supports_dual_source_blend
         /\ call' = NoCall
         /\ ss' = << >>
         /\ IF glsl /\ api \in GLAPIs /\ glsl_version.isnull
            THEN \* Assert(glsl_version != nullptr)
                 /\ pc' = "aborted"
                 /\ m_use_glsl_interface_blocks' = FALSE
                 /\ \E b \in BOOLEAN : m_use_glsl_binding_layout' = b
                 /\ m_glsl_version_string' = << >>
            ELSE /\ pc' = "ready"
                 /\ m_glsl_version_string' =
                      IF glsl /\ api \in GLAPIs
                      THEN SetGLSLVersionString(api, glsl_version.str)
                      ELSE << >>
                 /\ m_use_glsl_interface_blocks' =
                      (glsl /\ (IsVulkanAPI(api) \/ glad["GL_ES_VERSION_3_2"]
                                \/ glad["GL_VERSION_3_2"]))
                 /\ IF glsl
                    THEN m_use_glsl_binding_layout' =
                           (IsVulkanAPI(api) \/ UseGLSLBindingLayout(glad))
                    ELSE \* left uninitialised by the constructor
                         \E b \in BOOLEAN : m_use_glsl_binding_layout' = b
  /\ UNCHANGED env

\* ----------------------------------------------------------- text helpers
BlankLine == << >>

\* One line per string, each a single token; "" is the empty line.
Lines(strs) ==
  [i \in 1..Len(strs) |-> IF strs[i] = "" THEN BlankLine ELSE <<strs[i]>>]

HasToken(line, tok) == \E i \in 1..Len(line) : line[i] = tok

\* ------------------------------------------------------------ WriteHeader
DefineMacro(name, enabled) ==
  << <<"#define ", name, " ">> \o Dec(BoolToUInt32(enabled)) >>

HeaderVersion ==
  IF m_render_api \in GLAPIs THEN <<m_glsl_version_string, BlankLine>>
  ELSE IF m_render_api = "Vulkan" THEN Lines(<<"#version 450 core", "">>)
  ELSE << >>

HeaderExtensions ==
  IF m_render_api = "OpenGLES"
  THEN IF glad["GL_EXT_blend_func_extended"]
       THEN Lines(<<"#extension GL_EXT_blend_func_extended : require">>)
       ELSE << >>
  ELSE IF m_render_api = "OpenGL"
  THEN (IF m_use_glsl_binding_layout /\ ~glad["GL_VERSION_4_3"]
        THEN Lines(<<"#extension GL_ARB_explicit_attrib_location : require",
                     "#extension GL_ARB_explicit_uniform_location : require",
                     "#extension GL_ARB_shading_language_420pack : require">>)
        ELSE << >>)
       \o (IF ~glad["GL_VERSION_3_2"]
           THEN Lines(<<"#extension GL_ARB_uniform_buffer_object : require">>)
           ELSE << >>)
       \o (IF /\ ~glad["GL_VERSION_4_3"]
              /\ ~glad["GL_ES_VERSION_3_1"]
              /\ glad["GL_ARB_shader_storage_buffer_object"]
           THEN Lines(<<"#extension GL_ARB_shader_storage_buffer_object : require">>)
           ELSE << >>)
  ELSE << >>

\* HeaderAPIMacros with API_OPENGL following the dialect, not the backend.
HeaderAPIMacros_DialectAsOpenGL ==
  DefineMacro("API_OPENGL", m_glsl)
    \o DefineMacro("API_OPENGL_ES", m_render_api = "OpenGLES")
    \o DefineMacro("API_D3D11", m_render_api = "D3D11")
    \o DefineMacro("API_VULKAN", m_render_api = "Vulkan")

HeaderAPIMacros ==
  DefineMacro("API_OPENGL", m_render_api = "OpenGL")
    \o DefineMacro("API_OPENGL_ES", m_render_api = "OpenGLES")
    \o DefineMacro("API_D3D11", m_render_api = "D3D11")
    \o DefineMacro("API_VULKAN", m_render_api = "Vulkan")

HeaderPrecision ==
  IF m_render_api = "OpenGLES"
  THEN Lines(<<"precision highp float;", "precision highp int;",
               "precision highp sampler2D;">>)
       \o (IF glad["GL_ES_VERSION_3_2"]
           THEN Lines(<<"precision highp usamplerBuffer;">>) ELSE << >>)
       \o <<BlankLine>>
  ELSE << >>

GLSLShim ==
  Lines(<<"#define GLSL 1",
          "#define float2 vec2", "#define float3 vec3", "#define float4 vec4",
          "#define int2 ivec2", "#define int3 ivec3", "#define int4 ivec4",
          "#define uint2 uvec2", "#define uint3 uvec3", "#define uint4 uvec4",
          "#define float2x2 mat2", "#define float3x3 mat3",
          "#define float4x4 mat4",
          "#define mul(x, y) ((x) * (y))",
          "#define nointerpolation flat",
          "#define frac fract",
          "#define lerp mix",
          "#define CONSTANT const",
          "#define VECTOR_EQ(a, b) ((a) == (b))",
          "#define VECTOR_NEQ(a, b) ((a) != (b))",
          "#define VECTOR_COMP_EQ(a, b) equal((a), (b))",
          "#define VECTOR_COMP_NEQ(a, b) notEqual((a), (b))",
          "#define SAMPLE_TEXTURE(name, coords) texture(name, coords)",
          "#define LOAD_TEXTURE(name, coords, mip) texelFetch(name, coords, mip)",
          "#define LOAD_TEXTURE_OFFSET(name, coords, mip, offset) texelFetchOffset(name, coords, mip, offset)",
          "#define LOAD_TEXTURE_BUFFER(name, index) texelFetch(name, index)",
          "#define BEGIN_ARRAY(type, size) type[size](",
          "#define END_ARRAY )",
          "float saturate(float value) { return clamp(value, 0.0, 1.0); }",
          "float2 saturate(float2 value) { return clamp(value, float2(0.0, 0.0), float2(1.0, 1.0)); }",
          "float3 saturate(float3 value) { return clamp(value, float3(0.0, 0.0, 0.0), float3(1.0, 1.0, 1.0)); }",
          "float4 saturate(float4 value) { return clamp(value, float4(0.0, 0.0, 0.0, 0.0), float4(1.0, 1.0, 1.0, 1.0)); }">>)

HLSLShim ==
  Lines(<<"#define HLSL 1",
          "#define roundEven round", "#define mix lerp", "#define fract frac",
          "#define vec2 float2", "#define vec3 float3", "#define vec4 float4",
          "#define ivec2 int2", "#define ivec3 int3", "#define ivec4 int4",
          "#define uivec2 uint2", "#define uivec3 uint3", "#define uivec4 uint4",
          "#define mat2 float2x2", "#define mat3 float3x3",
          "#define mat4 float4x4",
          "#define CONSTANT static const",
          "#define VECTOR_EQ(a, b) (all((a) == (b)))",
          "#define VECTOR_NEQ(a, b) (any((a) != (b)))",
          "#define VECTOR_COMP_EQ(a, b) ((a) == (b))",
          "#define VECTOR_COMP_NEQ(a, b) ((a) != (b))",
          "#define SAMPLE_TEXTURE(name, coords) name.Sample(name##_ss, coords)",
          "#define LOAD_TEXTURE(name, coords, mip) name.Load(int3(coords, mip))",
          "#define LOAD_TEXTURE_OFFSET(name, coords, mip, offset) name.Load(int3(coords, mip), offset)",
          "#define LOAD_TEXTURE_BUFFER(name, index) name.Load(index)",
          "#define BEGIN_ARRAY(type, size) {",
          "#define END_ARRAY }">>)

WriteHeader ==
  HeaderVersion \o HeaderExtensions \o HeaderAPIMacros \o HeaderPrecision
    \o (IF m_glsl THEN GLSLShim ELSE HLSLShim) \o <<BlankLine>>

\* ---------------------------------------------------- declaration emitters
\* WriteUniformBufferDeclaration honouring the flag before the backend test.
WriteUniformBufferDeclaration_FlagFirst(push_constant_on_vulkan) ==
  IF push_constant_on_vulkan /\ m_glsl
  THEN Lines(<<"layout(push_constant) uniform PushConstants">>)
  ELSE IF IsVulkan
  THEN Lines(<<"layout(std140, set = 0, binding = 0) uniform UBOBlock">>)
  ELSE IF m_glsl
  THEN IF m_use_glsl_binding_layout
       THEN Lines(<<"layout(std140, binding = 1) uniform UBOBlock">>)
       ELSE Lines(<<"layout(std140) uniform UBOBlock">>)
  ELSE Lines(<<"cbuffer UBOBlock : register(b0)">>)

WriteUniformBufferDeclaration(push_constant_on_vulkan) ==
  IF IsVulkan
  THEN IF push_constant_on_vulkan
       THEN Lines(<<"layout(push_constant) uniform PushConstants">>)
       ELSE Lines(<<"layout(std140, set = 0, binding = 0) uniform UBOBlock">>)
  ELSE IF m_glsl
  THEN IF m_use_glsl_binding_layout
       THEN Lines(<<"layout(std140, binding = 1) uniform UBOBlock">>)
       ELSE Lines(<<"layout(std140) uniform UBOBlock">>)
  ELSE Lines(<<"cbuffer UBOBlock : register(b0)">>)

DeclareUniformBuffer(members, push_constant_on_vulkan) ==
  WriteUniformBufferDeclaration(push_constant_on_vulkan)
    \o Lines(<<"{">>)
    \o [i \in 1..Len(members) |-> <<members[i], ";">>]
    \o Lines(<<"};", "">>)

\* The layout qualifier DeclareTexture writes in front of a GLSL sampler.
TextureLayout(index) ==
  IF IsVulkan
  THEN <<"layout(set = 0, binding = ">> \o Dec(index + 1) \o <<") ">>
  ELSE IF m_use_glsl_binding_layout
  THEN <<"layout(binding = ">> \o Dec(index) \o <<") ">>
  ELSE << >>

DeclareTexture(name, index) ==
  IF m_glsl
  THEN << TextureLayout(index) \o <<"uniform sampler2D ", name, ";">> >>
  ELSE << <<"Texture2D ", name, " : register(t">> \o Dec(index) \o <<");">>,
          <<"SamplerState ", name, "_ss : register(s">> \o Dec(index) \o <<");">> >>

\* The layout qualifier DeclareTextureBuffer writes in front of a GLSL
\* buffer sampler.
TextureBufferLayout(index) ==
  IF IsVulkan
  THEN <<"layout(set = 0, binding = ">> \o Dec(index) \o <<") ">>
  ELSE IF m_use_glsl_binding_layout
  THEN <<"layout(binding = ">> \o Dec(index) \o <<") ">>
  ELSE << >>

DeclareTextureBuffer(name, index, is_int, is_unsigned) ==
  IF m_glsl
  THEN << TextureBufferLayout(index)
            \o <<"uniform ",
                 IF is_int THEN (IF is_unsigned THEN "u" ELSE "i") ELSE "",
                 "samplerBuffer ", name, ";">> >>
  ELSE << <<"Buffer<",
            IF is_int THEN (IF is_unsigned THEN "uint4" ELSE "int4") ELSE "float4",
            "> ", name, " : register(t">> \o Dec(index) \o <<");">> >>

\* ---------------------------------------------------- entry-point emitters
\* The lines a counted loop writes for i = 0 .. n-1.
Loop(n, line) == [k \in 1..n |-> line[k - 1]]

VertexAttributesGLSL(attributes) ==
  IF m_use_glsl_binding_layout
  THEN [k \in 1..Len(attributes) |->
          <<"layout(location = ">> \o Dec(k - 1)
            \o <<") ", "in ", attributes[k], ";">>]
  ELSE [k \in 1..Len(attributes) |-> <<"in ", attributes[k], ";">>]

VertexOutputsGLSL(num_color_outputs, num_texcoord_outputs, additional_outputs, output_block_suffix) ==
  IF m_use_glsl_interface_blocks
  THEN << (IF IsVulkan THEN <<"layout(location = 0) ">> ELSE << >>)
            \o <<"out ", "VertexData", output_block_suffix, " {">> >>
       \o Loop(num_color_outputs,
               [i \in 0..(num_color_outputs - 1) |->
                  <<"  ", "float4 v_col">> \o Dec(i) \o <<";">>])
       \o Loop(num_texcoord_outputs,
               [i \in 0..(num_texcoord_outputs - 1) |->
                  <<"  ", "float2 v_tex">> \o Dec(i) \o <<";">>])
       \o [k \in 1..Len(additional_outputs) |->
             <<"  ", additional_outputs[k][1], " ", additional_outputs[k][2], ";">>]
       \o Lines(<<"};">>)
  ELSE Loop(num_color_outputs,
            [i \in 0..(num_color_outputs - 1) |->
               <<"out ", "float4 v_col">> \o Dec(i) \o <<";">>])
       \o Loop(num_texcoord_outputs,
               [i \in 0..(num_texcoord_outputs - 1) |->
                  <<"out ", "float2 v_tex">> \o Dec(i) \o <<";">>])
       \o [k \in 1..Len(additional_outputs) |->
             <<additional_outputs[k][1], " ", "out ", additional_outputs[k][2], ";">>]

\* VertexIdGLSL without the Vulkan branch.
VertexIdGLSL_GenericOnly(declare_vertex_id) ==
  IF declare_vertex_id
  THEN << <<"#define v_id uint(", "gl_VertexID", ")">> >>
  ELSE << >>

VertexIdGLSL(declare_vertex_id) ==
  IF declare_vertex_id
  THEN IF IsVulkan
       THEN << <<"#define v_id uint(", "gl_VertexIndex", ")">> >>
       ELSE << <<"#define v_id uint(", "gl_VertexID", ")">> >>
  ELSE << >>

VertexInputsHLSL(attributes, declare_vertex_id) ==
  (IF declare_vertex_id
   THEN << <<"  ", "in ", "uint v_id", " : ", "SV_VertexID", ",">> >>
   ELSE << >>)
  \o [k \in 1..Len(attributes) |->
        <<"  ", "in ", attributes[k], " : ", "ATTR">> \o Dec(k - 1) \o <<",">>]

VertexOutputsHLSL(num_color_outputs, num_texcoord_outputs, additional_outputs) ==
  Loop(num_color_outputs,
       [i \in 0..(num_color_outputs - 1) |->
          <<"  ", "out ", "float4 v_col">> \o Dec(i)
                    \o <<" : ", "COLOR">> \o Dec(i) \o <<",">>])
  \o Loop(num_texcoord_outputs,
          [i \in 0..(num_texcoord_outputs - 1) |->
             <<"  ", "out ", "float2 v_tex">> \o Dec(i)
                       \o <<" : ", "TEXCOORD">> \o Dec(i) \o <<",">>])
  \o [k \in 1..Len(additional_outputs) |->
        <<"  ", additional_outputs[k][1], " ", "out ", additional_outputs[k][2],
          " : ", "TEXCOORD">>
          \o Dec(num_texcoord_outputs + k - 1) \o <<",">>]

DeclareVertexEntryPoint(attributes, num_color_outputs, num_texcoord_outputs, additional_outputs, declare_vertex_id, output_block_suffix) ==
  IF m_glsl
  THEN VertexAttributesGLSL(attributes)
       \o VertexOutputsGLSL(num_color_outputs, num_texcoord_outputs,
                            additional_outputs, output_block_suffix)
       \o Lines(<<"#define v_pos gl_Position", "">>)
       \o VertexIdGLSL(declare_vertex_id)
       \o Lines(<<"", "void main()">>)
  ELSE Lines(<<"void main(">>)
       \o VertexInputsHLSL(attributes, declare_vertex_id)
       \o VertexOutputsHLSL(num_color_outputs, num_texcoord_outputs,
                            additional_outputs)
       \o << <<"  ", "out ", "float4 v_pos", " : ", "SV_Position", ")">> >>

\* FragmentInputsGLSL with the texcoord loop ahead of the color loop.
FragmentInputsGLSL_TexcoordsFirst(num_color_inputs, num_texcoord_inputs, additional_inputs) ==
  IF m_use_glsl_interface_blocks
  THEN << (IF IsVulkan THEN <<"layout(location = 0) ">> ELSE << >>)
            \o <<"in ", "VertexData", " {">> >>
       \o Loop(num_texcoord_inputs,
               [i \in 0..(num_texcoord_inputs - 1) |->
                  <<"  ", "float2 v_tex">> \o Dec(i) \o <<";">>])
       \o Loop(num_color_inputs,
               [i \in 0..(num_color_inputs - 1) |->
                  <<"  ", "float4 v_col">> \o Dec(i) \o <<";">>])
       \o [k \in 1..Len(additional_inputs) |->
             <<"  ", additional_inputs[k][1], " ", additional_inputs[k][2], ";">>]
       \o Lines(<<"};">>)
  ELSE Loop(num_texcoord_inputs,
            [i \in 0..(num_texcoord_inputs - 1) |->
               <<"in ", "float2 v_tex">> \o Dec(i) \o <<";">>])
       \o Loop(num_color_inputs,
               [i \in 0..(num_color_inputs - 1) |->
                  <<"in ", "float4 v_col">> \o Dec(i) \o <<";">>])
       \o [k \in 1..Len(additional_inputs) |->
             <<additional_inputs[k][1], " ", "in ", additional_inputs[k][2], ";">>]

FragmentInputsGLSL(num_color_inputs, num_texcoord_inputs, additional_inputs) ==
  IF m_use_glsl_interface_blocks
  THEN << (IF IsVulkan THEN <<"layout(location = 0) ">> ELSE << >>)
            \o <<"in ", "VertexData", " {">> >>
       \o Loop(num_color_inputs,
               [i \in 0..(num_color_inputs - 1) |->
                  <<"  ", "float4 v_col">> \o Dec(i) \o <<";">>])
       \o Loop(num_texcoord_inputs,
               [i \in 0..(num_texcoord_inputs - 1) |->
                  <<"  ", "float2 v_tex">> \o Dec(i) \o <<";">>])
       \o [k \in 1..Len(additional_inputs) |->
             <<"  ", additional_inputs[k][1], " ", additional_inputs[k][2], ";">>]
       \o Lines(<<"};">>)
  ELSE Loop(num_color_inputs,
            [i \in 0..(num_color_inputs - 1) |->
               <<"in ", "float4 v_col">> \o Dec(i) \o <<";">>])
       \o Loop(num_texcoord_inputs,
               [i \in 0..(num_texcoord_inputs - 1) |->
                  <<"in ", "float2 v_tex">> \o Dec(i) \o <<";">>])
       \o [k \in 1..Len(additional_inputs) |->
             <<additional_inputs[k][1], " ", "in ", additional_inputs[k][2], ";">>]

FragmentAliasesGLSL(declare_fragcoord, depth_output) ==
  (IF declare_fragcoord THEN Lines(<<"#define v_pos gl_FragCoord">>) ELSE << >>)
  \o (IF depth_output THEN Lines(<<"#define o_depth gl_FragDepth">>) ELSE << >>)

\* Whether the call reaches Assert(num_color_outputs <= 1) and fails it.
FragmentAssertFails(num_color_outputs) ==
  /\ m_glsl
  /\ m_use_glsl_binding_layout
  /\ ~m_supports_dual_source_blend
  /\ ~(num_color_outputs <= 1)

FragmentOutputsGLSL(num_color_outputs) ==
  IF m_use_glsl_binding_layout
  THEN IF m_supports_dual_source_blend
       THEN Loop(num_color_outputs,
                 [i \in 0..(num_color_outputs - 1) |->
                    <<"layout(location = 0, index = ">> \o Dec(i)
                              \o <<") ", "out ", "float4 o_col">> \o Dec(i)
                              \o <<";">>])
       ELSE Loop(num_color_outputs,
                 [i \in 0..(num_color_outputs - 1) |->
                    <<"layout(location = 0">> \o Dec(i)
                              \o <<") ", "out ", "float4 o_col">> \o Dec(i)
                              \o <<";">>])
  ELSE Loop(num_color_outputs,
            [i \in 0..(num_color_outputs - 1) |->
               <<"out ", "float4 o_col">> \o Dec(i) \o <<";">>])

FragmentInputsHLSL(num_color_inputs, num_texcoord_inputs, additional_inputs, declare_fragcoord) ==
  Loop(num_color_inputs,
       [i \in 0..(num_color_inputs - 1) |->
          <<"  ", "in ", "float4 v_col">> \o Dec(i)
                    \o <<" : ", "COLOR">> \o Dec(i) \o <<",">>])
  \o Loop(num_texcoord_inputs,
          [i \in 0..(num_texcoord_inputs - 1) |->
             <<"  ", "in ", "float2 v_tex">> \o Dec(i)
                       \o <<" : ", "TEXCOORD">> \o Dec(i) \o <<",">>])
  \o [k \in 1..Len(additional_inputs) |->
        <<"  ", additional_inputs[k][1], " ", "in ", additional_inputs[k][2],
          " : ", "TEXCOORD">>
          \o Dec(num_texcoord_inputs + k - 1) \o <<",">>]
  \o (IF declare_fragcoord
      THEN << <<"  ", "in ", "float4 v_pos", " : ", "SV_Position", ",">> >>
      ELSE << >>)

FragmentOutputsHLSL(num_color_outputs, depth_output) ==
  (IF depth_output
   THEN << <<"  ", "out ", "float o_depth", " : ", "SV_Depth",
             IF num_color_outputs > 0 THEN "," ELSE ")">> >>
   ELSE << >>)
  \o Loop(num_color_outputs,
          [i \in 0..(num_color_outputs - 1) |->
             <<"  ", "out ", "float4 o_col">> \o Dec(i)
                       \o <<" : ", "SV_Target">> \o Dec(i)
                       \o <<IF i = num_color_outputs - 1
                            THEN ")" ELSE ",">>])

\* The text appended by the call; up to the failed Assert when it fails.
DeclareFragmentEntryPoint(num_color_inputs, num_texcoord_inputs, additional_inputs, declare_fragcoord, num_color_outputs, depth_output) ==
  IF m_glsl
  THEN FragmentInputsGLSL(num_color_inputs, num_texcoord_inputs,
                          additional_inputs)
       \o FragmentAliasesGLSL(declare_fragcoord, depth_output)
       \o (IF FragmentAssertFails(num_color_outputs) THEN << >>
           ELSE FragmentOutputsGLSL(num_color_outputs)
                \o Lines(<<"", "void main()">>))
  ELSE Lines(<<"void main(">>)
       \o FragmentInputsHLSL(num_color_inputs, num_texcoord_inputs,
                             additional_inputs, declare_fragcoord)
       \o FragmentOutputsHLSL(num_color_outputs, depth_output)

\* ------------------------------------------------------- shader assemblers
NoList == << >>

DefaultBlockSuffix == ""

ScreenQuadBody ==
  << BlankLine,
     <<"{">>,
     <<"  v_tex0 = float2(float((v_id << 1) & 2u), float(v_id & 2u));">>,
     <<"  v_pos = float4(v_tex0 * float2(2.0f, -2.0f) + float2(-1.0f, 1.0f), 0.0f, 1.0f);">>,
     <<"  #if ", "API_OPENGL", " || ", "API_OPENGL_ES", " || ", "API_VULKAN">>,
     <<"    v_pos.y = -v_pos.y;">>,
     <<"  #endif">>,
     <<"}">> >>

GenerateScreenQuadVertexShader ==
  WriteHeader
    \o DeclareVertexEntryPoint(NoList, 0, 1, NoList, TRUE, DefaultBlockSuffix)
    \o ScreenQuadBody

GenerateFillFragmentShader ==
  WriteHeader
    \o DeclareUniformBuffer(<<"float4 u_fill_color">>, TRUE)
    \o DeclareFragmentEntryPoint(0, 1, NoList, FALSE, 1, TRUE)
    \o Lines(<<"", "{", "  o_col0 = u_fill_color;",
               "  o_depth = u_fill_color.a;", "}">>)

GenerateCopyFragmentShader ==
  WriteHeader
    \o DeclareUniformBuffer(<<"float4 u_src_rect">>, TRUE)
    \o DeclareTexture("samp0", 0)
    \o DeclareFragmentEntryPoint(0, 1, NoList, FALSE, 1, FALSE)
    \o Lines(<<"", "{",
               "  float2 coords = u_src_rect.xy + v_tex0 * u_src_rect.zw;",
               "  o_col0 = SAMPLE_TEXTURE(samp0, coords);", "}">>)

\* ---------------------------------------------------------- caller inputs
AttributeLists == {<< >>, <<"float4 a_pos", "float2 a_tex0">>}

AdditionalLists ==
  {<< >>,
   << <<"nointerpolation", "uint4 v_texpage">>,
      <<"nointerpolation", "float v_depth">> >>}

BlockSuffixes == {"", "_VS"}

MemberLists == {<<"float4 u_fill_color">>,
                <<"uint2 u_base_coords", "uint2 u_size">>}

TextureNames == {"samp0"}

\* ------------------------------------------------------------------ calls
\* A call is followed on a sink of its own: the text an emitter appends does
\* not depend on what the sink already holds.

\* std::stringstream ss; the caller starts the next generation request.
NewShaderText ==
  /\ pc = "ready"
  /\ call # NoCall
  /\ ss' = << >>
  /\ call' = NoCall
  /\ UNCHANGED <<pc, caps, env>>

\* DoWriteHeader recording in the generator that the header turned the
\* binding-layout extensions on.
DoWriteHeader_EnablesBindingLayout ==
  /\ pc = "ready"
  /\ call = NoCall
  /\ ss' = WriteHeader
  /\ call' = [op |-> "WriteHeader"]
  /\ m_use_glsl_binding_layout' = TRUE
  /\ UNCHANGED <<pc, m_render_api, m_glsl, m_supports_dual_source_blend,
                 m_use_glsl_interface_blocks, m_glsl_version_string, env>>

DoWriteHeader ==
  /\ pc = "ready"
  /\ call = NoCall
  /\ ss' = WriteHeader
  /\ call' = [op |-> "WriteHeader"]
  /\ UNCHANGED <<pc, caps, env>>

DoDeclareUniformBuffer ==
  /\ pc = "ready"
  /\ call = NoCall
  /\ \E members \in MemberLists, push_constant_on_vulkan \in BOOLEAN :
       /\ ss' = DeclareUniformBuffer(members, push_constant_on_vulkan)
       /\ call' = [op |-> "DeclareUniformBuffer", members |-> members,
                   push_constant_on_vulkan |-> push_constant_on_vulkan]
  /\ UNCHANGED <<pc, caps, env>>

DoDeclareTexture ==
  /\ pc = "ready"
  /\ call = NoCall
  /\ \E name \in TextureNames, index \in 0..MaxIndex :
       /\ ss' = DeclareTexture(name, index)
       /\ call' = [op |-> "DeclareTexture", name |-> name, index |-> index]
  /\ UNCHANGED <<pc, caps, env>>

DoDeclareTextureBuffer ==
  /\ pc = "ready"
  /\ call = NoCall
  /\ \E name \in TextureNames, index \in 0..MaxIndex,
        is_int \in BOOLEAN, is_unsigned \in BOOLEAN :
       /\ ss' = DeclareTextureBuffer(name, index, is_int, is_unsigned)
       /\ call' = [op |-> "DeclareTextureBuffer", name |-> name,
                   index |-> index, is_int |-> is_int,
                   is_unsigned |-> is_unsigned]
  /\ UNCHANGED <<pc, caps, env>>

DoDeclareVertexEntryPoint ==
  /\ pc = "ready"
  /\ call = NoCall
  /\ \E attributes \in AttributeLists,
        num_color_outputs \in 0..MaxColors,
        num_texcoord_outputs \in 0..MaxTexcoords,
        additional_outputs \in AdditionalLists,
        declare_vertex_id \in BOOLEAN,
        output_block_suffix \in BlockSuffixes :
       /\ ss' = DeclareVertexEntryPoint(attributes, num_color_outputs,
                                        num_texcoord_outputs, additional_outputs,
                                        declare_vertex_id, output_block_suffix)
       /\ call' = [op |-> "DeclareVertexEntryPoint",
                   attributes |-> attributes,
                   num_color_outputs |-> num_color_outputs,
                   num_texcoord_outputs |-> num_texcoord_outputs,
                   additional_outputs |-> additional_outputs,
                   declare_vertex_id |-> declare_vertex_id,
                   output_block_suffix |-> output_block_suffix]
  /\ UNCHANGED <<pc, caps, env>>

DoDeclareFragmentEntryPoint ==
  /\ pc = "ready"
  /\ call = NoCall
  /\ \E num_color_inputs \in 0..MaxColors,
        num_texcoord_inputs \in 0..MaxTexcoords,
        additional_inputs \in AdditionalLists,
        declare_fragcoord \in BOOLEAN,
        num_color_outputs \in 0..MaxColors,
        depth_output \in BOOLEAN :
       /\ ss' = DeclareFragmentEntryPoint(num_color_inputs, num_texcoord_inputs,
                                          additional_inputs, declare_fragcoord,
                                          num_color_outputs, depth_output)
       /\ call' = [op |-> "DeclareFragmentEntryPoint",
                   num_color_inputs |-> num_color_inputs,
                   num_texcoord_inputs |-> num_texcoord_inputs,
                   additional_inputs |-> additional_inputs,
                   declare_fragcoord |-> declare_fragcoord,
                   num_color_outputs |-> num_color_outputs,
                   depth_output |-> depth_output]
       /\ pc' = IF FragmentAssertFails(num_color_outputs)
                THEN "aborted" ELSE "ready"
  /\ UNCHANGED <<caps, env>>

DoGenerateScreenQuadVertexShader ==
  /\ pc = "ready"
  /\ call = NoCall
  /\ ss' = GenerateScreenQuadVertexShader
  /\ call' = [op |-> "GenerateScreenQuadVertexShader"]
  /\ UNCHANGED <<pc, caps, env>>

DoGenerateFillFragmentShader ==
  /\ pc = "ready"
  /\ call = NoCall
  /\ ss' = GenerateFillFragmentShader
  /\ call' = [op |-> "GenerateFillFragmentShader"]
  /\ UNCHANGED <<pc, caps, env>>

DoGenerateCopyFragmentShader ==
  /\ pc = "ready"
  /\ call = NoCall
  /\ ss' = GenerateCopyFragmentShader
  /\ call' = [op |-> "GenerateCopyFragmentShader"]
  /\ UNCHANGED <<pc, caps, env>>

\* --------------------------------------------------------- specifications
NoGlad == [f \in GladFlags |-> FALSE]

InitFields ==
  /\ pc = "new"
  /\ m_render_api = "unset"
  /\ m_glsl = FALSE
  /\ m_supports_dual_source_blend = FALSE
  /\ m_use_glsl_interface_blocks = FALSE
  /\ m_use_glsl_binding_layout = FALSE
  /\ m_glsl_version_string = << >>
  /\ ss = << >>
  /\ call = NoCall

\* Every host display and GL context, with one well-formed driver version
\* string per GL flavour and the missing string.
Init ==
  /\ host \in [render_api : RenderAPIs, supports_dual_source_blend : BOOLEAN]
  /\ glad \in GladFor(host.render_api)
  /\ glsl_version \in
       IF host.render_api = "OpenGL" THEN {Str(Desktop460), NullStr}
       ELSE IF host.render_api = "OpenGLES" THEN {Str(Embedded320), NullStr}
       ELSE {NullStr}
  /\ InitFields

Next ==
  \/ Construct
  \/ NewShaderText
  \/ DoWriteHeader
  \/ DoDeclareUniformBuffer
  \/ DoDeclareTexture
  \/ DoDeclareTextureBuffer
  \/ DoDeclareVertexEntryPoint
  \/ DoDeclareFragmentEntryPoint
  \/ DoGenerateScreenQuadVertexShader
  \/ DoGenerateFillFragmentShader
  \/ DoGenerateCopyFragmentShader

Spec == Init /\ [][Next]_vars

\* Every driver version string of at most MaxVerLen characters.
InitVersion ==
  /\ host \in [render_api : RenderAPIs, supports_dual_source_blend : {FALSE}]
  /\ glad = NoGlad
  /\ glsl_version \in
       IF host.render_api \in GLAPIs
       THEN {Str(s) : s \in StringsUpTo(MaxVerLen)} \cup {NullStr}
       ELSE {NullStr}
  /\ InitFields

NextVersion ==
  \/ Construct
  \/ DoWriteHeader
  \/ NewShaderText

SpecVersion == InitVersion /\ [][NextVersion]_vars

\* ================================================================= claims
Constructed == pc = "ready"

\* What sscanf made of the driver's version string.
Reported == sscanf(glsl_version.str, SkipNonDigits(glsl_version.str, 1))

Parses == ~glsl_version.isnull /\ Reported.count = 2

Embedded == m_render_api = "OpenGLES"

Directive(code, es) ==
  <<"#version ">> \o code \o (IF es THEN <<" es">> ELSE << >>)

\* The integer written after "#version ", -1 when it is not a plain integer.
DirectiveCode(d) ==
  LET n == ScanDigits(d, 2, 0)
  IN  IF /\ Len(d) >= 2
         /\ n.next > 2
         /\ (n.next = Len(d) + 1 \/ (n.next = Len(d) /\ d[n.next] = " es"))
      THEN n.val ELSE -1

CeilingMajor == IF Embedded THEN 3 ELSE 4

CeilingMinor == IF Embedded THEN 20 ELSE 30

AboveCeiling ==
  \/ Reported.major > CeilingMajor
  \/ Reported.major = CeilingMajor /\ Reported.minor > CeilingMinor

\* ------------------------------------------------------------------- C1
\* C1 (as claimed): a GL generator built from a version string that is
\* present but does not parse holds the fallback directive, "#version 130"
\* on DesktopGL and "#version 300 es" on EmbeddedGL, and WriteHeader writes
\* that directive as its first line.
C1_FallbackDirective ==
  (Constructed /\ m_render_api \in GLAPIs /\ ~glsl_version.isnull /\ ~Parses)
    => LET fallback == IF Embedded
                       THEN Directive(<<"3", "0", "0">>, TRUE)
                       ELSE Directive(<<"1", "3", "0">>, FALSE)
       IN  /\ m_glsl_version_string = fallback
           /\ call.op = "WriteHeader" => ss[1] = fallback

\* ------------------------------------------------------------------- C2
\* C2 (as claimed): for a version string that parses, the directive is the
\* clamped version written as major, then minor padded to two digits, with
\* " es" exactly for EmbeddedGL and major >= 3; its integer code is at most
\* 430 on DesktopGL and 320 on EmbeddedGL; a version at or below the ceiling
\* is written unchanged.
C2_CodeNeverAboveCeiling ==
  (Constructed /\ m_render_api \in GLAPIs /\ Parses)
    => LET major == IF AboveCeiling THEN CeilingMajor ELSE Reported.major
           minor == IF AboveCeiling THEN CeilingMinor ELSE Reported.minor
       IN  /\ m_glsl_version_string =
                Directive(Dec(major) \o Dec02(minor), Embedded /\ major >= 3)
           /\ DirectiveCode(m_glsl_version_string) = 100 * major + minor
           /\ DirectiveCode(m_glsl_version_string)
                <= 100 * CeilingMajor + CeilingMinor

\* C2 (amended): as claimed, except that the integer code is major * 100 +
\* minor, and so bounded by 430 / 320, only when the reported minor version
\* is between 0 and 99; the clamped (major, minor) pair itself is never above
\* the ceiling.
C2_ClampedDirective ==
  (Constructed /\ m_render_api \in GLAPIs /\ Parses)
    => LET major == IF AboveCeiling THEN CeilingMajor ELSE Reported.major
           minor == IF AboveCeiling THEN CeilingMinor ELSE Reported.minor
       IN  /\ m_glsl_version_string =
                Directive(Dec(major) \o Dec02(minor), Embedded /\ major >= 3)
           /\ call.op = "WriteHeader" => ss[1] = m_glsl_version_string
           /\ major < CeilingMajor \/ (major = CeilingMajor /\ minor <= CeilingMinor)
           /\ Reported.minor \in 0..99 =>
                /\ DirectiveCode(m_glsl_version_string) = 100 * major + minor
                /\ DirectiveCode(m_glsl_version_string)
                     <= 100 * CeilingMajor + CeilingMinor

\* A desktop version above 4.30 was clamped and written by WriteHeader.
C2_Witness ==
  /\ Constructed /\ m_render_api = "OpenGL" /\ Parses
  /\ Reported.major = 4 /\ Reported.minor > 30
  /\ call.op = "WriteHeader"
  /\ ss[1] = <<"#version ", "4", "3", "0">>

\* ------------------------------------------------------------------- C3
\* C3 (as claimed): without dual-source blend, a fragment entry point asked
\* for two or more color outputs fails the assertion, on every backend and
\* for every binding-layout and interface-block capability.
C3_AssertOnEveryBackend ==
  (/\ call.op = "DeclareFragmentEntryPoint"
   /\ ~m_supports_dual_source_blend
   /\ call.num_color_outputs >= 2)
    => pc = "aborted"

\* ------------------------------------------------------------------- C4
APIMacros == {"API_OPENGL", "API_OPENGL_ES", "API_D3D11", "API_VULKAN"}

MacroOfAPI ==
  [OpenGL |-> "API_OPENGL", OpenGLES |-> "API_OPENGL_ES",
   D3D11 |-> "API_D3D11", Vulkan |-> "API_VULKAN"]

\* The lines of the text that define the macro.
Definitions(text, name) ==
  {i \in 1..Len(text) :
     Len(text[i]) >= 2 /\ text[i][1] = "#define " /\ text[i][2] = name}

HeaderCalls == {"WriteHeader", "GenerateScreenQuadVertexShader",
                "GenerateFillFragmentShader", "GenerateCopyFragmentShader"}

\* C4: the header defines each of the four backend macros exactly once, as
\* 0 or 1, and exactly one of them, the active backend's, as 1.
C4_BackendMacros ==
  call.op \in HeaderCalls
    => /\ \A name \in APIMacros :
            /\ Cardinality(Definitions(ss, name)) = 1
            /\ \A i \in Definitions(ss, name) :
                 /\ Len(ss[i]) = 4
                 /\ ss[i][3] = " "
                 /\ ss[i][4] \in {"0", "1"}
                 /\ ss[i][4] = "1" <=> name = MacroOfAPI[m_render_api]
       /\ Cardinality({name \in APIMacros :
                         \E i \in Definitions(ss, name) : ss[i][4] = "1"}) = 1

C4_Witness ==
  /\ call.op = "WriteHeader"
  /\ m_render_api = "Vulkan"
  /\ \E i \in 1..Len(ss) : ss[i] = <<"#define ", "API_VULKAN", " ", "1">>
  /\ \E i \in 1..Len(ss) : ss[i] = <<"#define ", "API_OPENGL", " ", "0">>

\* ------------------------------------------------------------------- C5
\* C5 (as claimed): on D3D-style the fragment entry point is a well-formed
\* parameter list: "void main(", then parameters of which every one but the
\* last ends in a comma and the last ends in the only ")".
C5_ParameterListClosed ==
  (call.op = "DeclareFragmentEntryPoint" /\ m_render_api = "D3D11")
    => /\ Len(ss) >= 1
       /\ ss[1] = <<"void main(">>
       /\ \A i \in 2..(Len(ss) - 1) : ss[i][Len(ss[i])] = ","
       /\ Cardinality({i \in 1..Len(ss) : ss[i][Len(ss[i])] = ")"}) = 1
       /\ ss[Len(ss)][Len(ss[Len(ss)])] = ")"

\* ------------------------------------------------------------------- C6
GLAPIBindingForm ==
  IF m_use_glsl_binding_layout
  THEN "layout(std140, binding = 1) uniform UBOBlock"
  ELSE "layout(std140) uniform UBOBlock"

\* The declaration line by backend.
UniformBufferForm(push_constant) ==
  [Vulkan |-> IF push_constant
              THEN "layout(push_constant) uniform PushConstants"
              ELSE "layout(std140, set = 0, binding = 0) uniform UBOBlock",
   OpenGL |-> GLAPIBindingForm,
   OpenGLES |-> GLAPIBindingForm,
   D3D11 |-> "cbuffer UBOBlock : register(b0)"]

\* C6: the uniform-buffer declaration is the one form its backend, the
\* binding-layout support and, on Vulkan-style only, the push-constant flag
\* select, followed by the caller's members in order, each ended by ";".
C6_UniformBufferForms ==
  call.op = "DeclareUniformBuffer"
    => LET n == Len(call.members)
       IN  /\ Len(ss) = n + 4
           /\ ss[1] = <<UniformBufferForm(call.push_constant_on_vulkan)[m_render_api]>>
           /\ m_render_api # "Vulkan" =>
                ss[1] = <<UniformBufferForm(~call.push_constant_on_vulkan)[m_render_api]>>
           /\ ss[2] = <<"{">>
           /\ \A k \in 1..n : ss[k + 2] = <<call.members[k], ";">>
           /\ ss[n + 3] = <<"};">>
           /\ ss[n + 4] = BlankLine

C6_Witness ==
  /\ call.op = "DeclareUniformBuffer"
  /\ m_render_api = "Vulkan"
  /\ call.push_constant_on_vulkan
  /\ Len(call.members) = 2
  /\ ss[1] = <<"layout(push_constant) uniform PushConstants">>
  /\ ss[4] = <<call.members[2], ";">>

\* ------------------------------------------------------------------- C7
IsPrefix(p, line) == Len(p) <= Len(line) /\ SubSeq(line, 1, Len(p)) = p

IsSuffix(p, line) ==
  Len(p) <= Len(line) /\ SubSeq(line, Len(line) - Len(p) + 1, Len(line)) = p

\* The binding rule the texture emitter is described to follow.
BindingRule(index) ==
  IF m_render_api = "Vulkan"
  THEN <<"layout(set = 0, binding = ">> \o Dec(index + 1) \o <<") ">>
  ELSE IF m_use_glsl_binding_layout
  THEN <<"layout(binding = ">> \o Dec(index) \o <<") ">>
  ELSE << >>

\* C7 (as claimed): the texture and the texel-buffer declaration follow the
\* same binding rule: set 0 and binding index + 1 on Vulkan-style,
\* layout(binding = index) on GL only with binding layout and no qualifier
\* without, register t<index> on D3D-style; the texture-copy shader declares
\* samp0 accordingly.
C7_SameBindingRule ==
  /\ call.op \in {"DeclareTexture", "DeclareTextureBuffer"}
       => IF m_render_api = "D3D11"
          THEN IsSuffix(<<" : register(t">> \o Dec(call.index) \o <<");">>,
                        ss[1])
          ELSE /\ IsPrefix(BindingRule(call.index) \o <<"uniform ">>, ss[1])
                    \/ IsPrefix(BindingRule(call.index)
                                  \o <<"uniform sampler2D ">>, ss[1])
  /\ (call.op = "GenerateCopyFragmentShader" /\ m_render_api = "OpenGL"
        /\ m_use_glsl_binding_layout)
       => \E i \in 1..Len(ss) :
            ss[i] = <<"layout(binding = ", "0", ") ", "uniform sampler2D ",
                      "samp0", ";">>
  /\ (call.op = "GenerateCopyFragmentShader" /\ m_render_api = "D3D11")
       => \E i \in 1..(Len(ss) - 1) :
            /\ ss[i] = <<"Texture2D ", "samp0", " : register(t", "0", ");">>
            /\ ss[i + 1] = <<"SamplerState ", "samp0", "_ss : register(s", "0", ");">>

\* ------------------------------------------------------------------- C8
\* The macro names a conditional-compilation line tests.
GuardMacros(line) == {line[k] : k \in 1..Len(line)} \cap APIMacros

IsGuard(line) == Len(line) >= 2 /\ line[1] = "  #if "

\* C8: the full-screen-quad vertex shader for DesktopGL 4.60 holds the
\* Y-flip under a guard that starts with API_OPENGL, defined as 1 above it;
\* for Vulkan-style it defines v_id from gl_VertexIndex and never from
\* gl_VertexID; for D3D-style every macro of the guard is defined as 0.
C8_ScreenQuad ==
  call.op = "GenerateScreenQuadVertexShader"
    => /\ (m_render_api = "OpenGL" /\ glsl_version = Str(Desktop460))
            => \E i \in 1..(Len(ss) - 2) :
                 /\ IsGuard(ss[i]) /\ ss[i][2] = "API_OPENGL"
                 /\ ss[i + 1] = <<"    v_pos.y = -v_pos.y;">>
                 /\ ss[i + 2] = <<"  #endif">>
                 /\ \E d \in 1..(i - 1) :
                      ss[d] = <<"#define ", "API_OPENGL", " ", "1">>
       /\ m_render_api = "Vulkan"
            => /\ \E i \in 1..Len(ss) :
                    ss[i] = <<"#define v_id uint(", "gl_VertexIndex", ")">>
               /\ \A i \in 1..Len(ss) : ~HasToken(ss[i], "gl_VertexID")
       /\ m_render_api = "D3D11"
            => /\ \E i \in 1..Len(ss) : IsGuard(ss[i])
               /\ \A i \in 1..Len(ss) :
                    IsGuard(ss[i]) =>
                      /\ GuardMacros(ss[i]) # {}
                      /\ \A name \in GuardMacros(ss[i]) :
                           \E d \in 1..(i - 1) :
                             ss[d] = <<"#define ", name, " ", "0">>

C8_Witness ==
  /\ call.op = "GenerateScreenQuadVertexShader"
  /\ m_render_api = "OpenGL"
  /\ glsl_version = Str(Desktop460)
  /\ ss[1] = <<"#version ", "4", "3", "0">>
  /\ \E i \in 1..Len(ss) : ss[i] = <<"    v_pos.y = -v_pos.y;">>
  /\ \E i \in 1..Len(ss) : ss[i] = <<"#define v_id uint(", "gl_VertexID", ")">>

\* ------------------------------------------------------------------- C9
\* The text the recorded call appends, computed from the current fields.
TextOf(c) ==
  IF c.op = "WriteHeader" THEN WriteHeader
  ELSE IF c.op = "DeclareUniformBuffer"
  THEN DeclareUniformBuffer(c.members, c.push_constant_on_vulkan)
  ELSE IF c.op = "DeclareTexture" THEN DeclareTexture(c.name, c.index)
  ELSE IF c.op = "DeclareTextureBuffer"
  THEN DeclareTextureBuffer(c.name, c.index, c.is_int, c.is_unsigned)
  ELSE IF c.op = "DeclareVertexEntryPoint"
  THEN DeclareVertexEntryPoint(c.attributes, c.num_color_outputs,
                               c.num_texcoord_outputs, c.additional_outputs,
                               c.declare_vertex_id, c.output_block_suffix)
  ELSE IF c.op = "DeclareFragmentEntryPoint"
  THEN DeclareFragmentEntryPoint(c.num_color_inputs, c.num_texcoord_inputs,
                                 c.additional_inputs, c.declare_fragcoord,
                                 c.num_color_outputs, c.depth_output)
  ELSE IF c.op = "GenerateScreenQuadVertexShader"
  THEN GenerateScreenQuadVertexShader
  ELSE IF c.op = "GenerateFillFragmentShader" THEN GenerateFillFragmentShader
  ELSE IF c.op = "GenerateCopyFragmentShader" THEN GenerateCopyFragmentShader
  ELSE << >>

\* C9: once the generator is constructed no call changes a field of the
\* capability set, and the text a call appended is the text the same call
\* appends from the fields as they are after it, so equal calls append equal
\* text wherever they occur.
C9_CapabilitiesFrozen ==
  /\ [][Constructed => caps' = caps]_vars
  /\ [](Constructed => ss = TextOf(call))

C9_Witness ==
  /\ Constructed
  /\ call.op = "DeclareVertexEntryPoint"
  /\ call.num_color_outputs = 1
  /\ m_use_glsl_binding_layout
  /\ ss # << >>

\* ------------------------------------------------------------------ C10
SystemValues == {"SV_Position", "SV_VertexID", "SV_Depth", "SV_Target"}

WithoutToken(line, tok) == SelectSeq(line, LAMBDA t : t # tok /\ t # "")

IsBlockHead(line) == HasToken(line, "VertexData")

\* The stage interface a text declares in direction dir ("out " or "in "):
\* the interface block (its head line and members) or the individual
\* variables, each without its direction keyword.
StageInterface(text, dir) ==
  IF \E i \in 1..Len(text) : IsBlockHead(text[i])
  THEN LET i == CHOOSE i \in 1..Len(text) : IsBlockHead(text[i])
           j == CHOOSE j \in (i + 1)..Len(text) :
                  /\ text[j] = <<"};">>
                  /\ \A k \in (i + 1)..(j - 1) : text[k] # <<"};">>
       IN  [style |-> "block",
            head |-> WithoutToken(text[i], dir),
            members |-> SubSeq(text, i + 1, j - 1)]
  ELSE LET declared(line) ==
             /\ HasToken(line, dir)
             /\ \A sv \in SystemValues : ~HasToken(line, sv)
           picked == SelectSeq(text, declared)
       IN  [style |-> "variables",
            head |-> << >>,
            members |-> [k \in 1..Len(picked) |-> WithoutToken(picked[k], dir)]]

\* What the fragment emitter declares for the counts and list of call c.
FragmentSide(c) ==
  StageInterface(
    DeclareFragmentEntryPoint(c.num_color_outputs, c.num_texcoord_outputs,
                              c.additional_outputs, FALSE, 1, FALSE),
    "in ")

\* C10 (as claimed): for every suffix given to the vertex emitter, the stage
\* inputs of the fragment emitter are the stage outputs of the vertex
\* emitter: same style, same block name, same members and semantics in the
\* same order.
C10_MirrorForEverySuffix ==
  call.op = "DeclareVertexEntryPoint"
    => StageInterface(ss, "out ") = FragmentSide(call)

\* The head line with the suffix written after the block name.
WithSuffix(head, suffix) ==
  IF suffix = "" THEN head
  ELSE LET k == CHOOSE k \in 1..Len(head) : head[k] = "VertexData"
       IN  SubSeq(head, 1, k) \o <<suffix>> \o SubSeq(head, k + 1, Len(head))

\* C10 (amended): the fragment inputs mirror the vertex outputs in style,
\* members, order and semantics; the vertex block is named VertexData
\* followed by the suffix and the fragment block always VertexData, so the
\* block names agree exactly when the suffix is empty.
C10_MirrorUpToSuffix ==
  call.op = "DeclareVertexEntryPoint"
    => LET v == StageInterface(ss, "out ")
           f == FragmentSide(call)
       IN  /\ v.style = f.style
           /\ v.members = f.members
           /\ Len(v.members) = call.num_color_outputs
                + call.num_texcoord_outputs + Len(call.additional_outputs)
           /\ v.style = "block" <=> (m_glsl /\ m_use_glsl_interface_blocks)
           /\ v.style = "block" =>
                /\ v.head = WithSuffix(f.head, call.output_block_suffix)
                /\ v.head = f.head <=> call.output_block_suffix = ""
           /\ v.style = "variables" => v.head = f.head

C10_Witness ==
  /\ call.op = "DeclareVertexEntryPoint"
  /\ m_use_glsl_interface_blocks
  /\ call.output_block_suffix = "_VS"
  /\ call.num_color_outputs = 1
  /\ call.num_texcoord_outputs = 2
  /\ Len(call.additional_outputs) = 2
  /\ StageInterface(ss, "out ").style = "block"
  /\ Len(StageInterface(ss, "out ").members) = 5

====
